---- MODULE Spec2Model ----
(***************************************************************************)
(* Model of the tunnel-max telemetry backend (Django app "vpn"):           *)
(* models.py (AppUser, Session, ServerConfig), views.py (start_session,    *)
(* end_session, the two stats views, server_config) and urls.py.           *)
(*                                                                         *)
(* Rows are kept in sequences; a row's primary key is its index, because   *)
(* the AutoField counts up and no view deletes a row.  Timestamps are      *)
(* ticks of a logical clock.  A decimal with two places (total_data_MB)    *)
(* is represented by its integer number of hundredths.                     *)
(***************************************************************************)
EXTENDS Integers, Sequences, FiniteSets, TLC

VARIABLES
    users,      \* table vpn_appuser
    sessions,   \* table vpn_session
    configs,    \* table vpn_serverconfig
    now,        \* timezone.now()
    req,        \* the operation of the last request served (sequential service)
    resp,       \* the response to it
    pc,         \* concurrent workers: position inside the view being run
    preq,       \* concurrent workers: the request being served
    puser,      \* concurrent workers: the view's local `user` (a primary key, 0 = unset)
    presp,      \* concurrent workers: the response returned
    plog        \* concurrent workers: the store calls the request has made so far

workers == <<pc, preq, puser, presp, plog>>
vars == <<users, sessions, configs, now, req, resp, pc, preq, puser, presp, plog>>

----------------------------------------------------------------------------
(* Bounds of the model *)

MaxSessions == 2
MaxTime == 1
MaxConfigs == 3

----------------------------------------------------------------------------
(* Request values.  request.data.get(k) is a JSON value or None; a value   *)
(* is tagged absent / int / str so that values of different Python types   *)
(* stay comparable.                                                        *)

NoValue == [t |-> "absent", n |-> 0, s |-> ""]
IntValue(n) == [t |-> "int", n |-> n, s |-> ""]
StrValue(s) == [t |-> "str", n |-> 0, s |-> s]
Given(v) == v.t = "str"

UserIds == {"u1", "u2"}
UserIdInputs == {StrValue(u) : u \in UserIds} \cup {NoValue}

\* <<device_os, app_version>> of a request
DeviceInputs ==
    {<<StrValue("android"), StrValue("1.0")>>, <<StrValue("ios"), StrValue("2.0")>>,
     <<NoValue, StrValue("1.0")>>, <<StrValue("android"), NoValue>>}

SessionIdInputs == {IntValue(i) : i \in 1..(MaxSessions + 1)} \cup {StrValue("abc"), NoValue}

\* <<bytes_sent, bytes_received>> of a request
ByteInputs ==
    {<<IntValue(131072), NoValue>>, <<NoValue, IntValue(393216)>>,
     <<IntValue(1048576), IntValue(1048576)>>,
     <<StrValue("abc"), NoValue>>, <<IntValue(131072), StrValue("abc")>>}

ServerIps == {"10.0.0.1", "10.0.0.2"}

----------------------------------------------------------------------------
(* models.py *)

NULL == -1

\* created_at and start_time are set once by the store and read by no view;
\* the rows of the model leave them out.
AppUser(user_id, device_os, app_version) ==
    [user_id |-> user_id, device_os |-> device_os, app_version |-> app_version]

Session(user) ==
    [user |-> user, end_time |-> NULL, bytes_sent |-> 0, bytes_received |-> 0,
     active |-> TRUE]

SessionFields ==
    {"id", "user", "user_id", "start_time", "end_time", "bytes_sent",
     "bytes_received", "active"}

ServerConfig(server_ip, t) ==
    [server_ip |-> server_ip, port |-> 1194, protocol |-> "udp",
     dns |-> "1.1.1.1", message |-> "", last_updated |-> t]

RECURSIVE SumOver(_, _)
SumOver(rows, field) ==
    IF rows = <<>> THEN 0
    ELSE rows[1][field] + SumOver(Tail(rows), field)

----------------------------------------------------------------------------
(* HTTP responses *)

Response(body, status) == [status |-> status, body |-> body]
ServerError == Response([error |-> "Server Error (500)"], 500)

----------------------------------------------------------------------------
(* views.py: start_session *)

\* AppUser.objects.get(user_id=...): the primary key of the row, 0 for DoesNotExist.
\* A lookup with None compiles to IS NULL and matches no row (the column is NOT NULL).
UserGet(us, uid) ==
    IF uid.t = "str" /\ \E i \in DOMAIN us : us[i].user_id = uid.s
    THEN CHOOSE i \in DOMAIN us : us[i].user_id = uid.s
    ELSE 0

\* The INSERT succeeds unless a NOT NULL column gets None or user_id is taken
\* (unique=True); otherwise the store raises IntegrityError.
UserInsertOk(us, uid, os, app_version) ==
    /\ uid.t = "str" /\ os.t = "str" /\ app_version.t = "str"
    /\ \A i \in DOMAIN us : us[i].user_id # uid.s

GotUser(us, user, created) ==
    [users |-> us, user |-> user, created |-> created, raised |-> FALSE]

\* Mutant: the defaults are dropped when the row is created.
get_or_create_no_defaults(us, uid, os, app_version) ==
    IF UserGet(us, uid) # 0 THEN GotUser(us, UserGet(us, uid), FALSE)
    ELSE IF UserInsertOk(us, uid, os, app_version)
    THEN GotUser(Append(us, AppUser(uid.s, "", "")), Len(us) + 1, TRUE)
    ELSE [users |-> us, user |-> 0, created |-> FALSE, raised |-> TRUE]

\* Mutant: update_or_create, which writes the defaults over a stored row.
update_or_create(us, uid, os, app_version) ==
    IF UserGet(us, uid) # 0
    THEN GotUser([us EXCEPT ![UserGet(us, uid)] =
                     AppUser(uid.s, IF Given(os) THEN os.s ELSE @.device_os,
                             IF Given(app_version) THEN app_version.s ELSE @.app_version)],
                 UserGet(us, uid), FALSE)
    ELSE IF UserInsertOk(us, uid, os, app_version)
    THEN GotUser(Append(us, AppUser(uid.s, os.s, app_version.s)), Len(us) + 1, TRUE)
    ELSE [users |-> us, user |-> 0, created |-> FALSE, raised |-> TRUE]

\* AppUser.objects.get_or_create(user_id=user_id, defaults={...}): get; on
\* DoesNotExist create; on IntegrityError get again, and re-raise on a second miss.
get_or_create(us, uid, os, app_version) ==
    IF UserGet(us, uid) # 0 THEN GotUser(us, UserGet(us, uid), FALSE)
    ELSE IF UserInsertOk(us, uid, os, app_version)
    THEN GotUser(Append(us, AppUser(uid.s, os.s, app_version.s)), Len(us) + 1, TRUE)
    ELSE IF UserGet(us, uid) # 0 THEN GotUser(us, UserGet(us, uid), FALSE)
    ELSE [users |-> us, user |-> 0, created |-> FALSE, raised |-> TRUE]

Started(session_id) == Response([session_id |-> session_id, status |-> "started"], 200)

\* The view as a function of the store and the request: the tables after it and
\* its response.
start_session(us, ss, uid, os, app_version) ==
    LET g == get_or_create(us, uid, os, app_version) IN
    IF g.raised
    THEN [users |-> g.users, sessions |-> ss, resp |-> ServerError]
    ELSE [users |-> g.users, sessions |-> Append(ss, Session(g.user)),
          resp |-> Started(Len(ss) + 1)]

\* POST /start-session/
StartSessionCall(uid, os, app_version) ==
    /\ Len(sessions) < MaxSessions
    /\ LET r == start_session(users, sessions, uid, os, app_version) IN
         users' = r.users /\ sessions' = r.sessions /\ resp' = r.resp
    /\ req' = "POST /start-session/"
    /\ UNCHANGED <<configs, now, workers>>

----------------------------------------------------------------------------
(* views.py: end_session *)

\* int(request.data.get(k, 0)): the default for an absent key, ValueError for a
\* value that is no integer literal.
ParseOk(v) == v.t # "str"
ParseInt(v) == IF v.t = "int" THEN v.n ELSE 0

\* Session.objects.get(id=session_id): "found", "DoesNotExist" (also for None),
\* or "ValueError" when the value cannot be cast to the integer primary key.
SessionGet(ss, sid) ==
    IF sid.t = "str" THEN "ValueError"
    ELSE IF sid.t = "int" /\ sid.n \in DOMAIN ss THEN "found"
    ELSE "DoesNotExist"

\* Mutant: the assignment session.active = False is missing.
Ended_still_active(session, sent, received, t) ==
    [session EXCEPT !.end_time = t, !.bytes_sent = sent, !.bytes_received = received]

\* Mutant: a guard against ending twice; an ended row is left as it is.
Ended_once(session, sent, received, t) ==
    IF session.end_time # NULL THEN session
    ELSE [session EXCEPT !.end_time = t, !.active = FALSE,
                         !.bytes_sent = sent, !.bytes_received = received]

\* The four assignments before session.save().
Ended(session, sent, received, t) ==
    [session EXCEPT !.end_time = t, !.active = FALSE,
                    !.bytes_sent = sent, !.bytes_received = received]

EndedResponse == Response([status |-> "ended"], 200)
InvalidSession == Response([error |-> "Invalid session ID"], 404)

\* The view as a function of the Session table, the request and the time of the
\* call: the table after it and its response.
end_session(ss, sid, sent, received, t) ==
    IF ~(ParseOk(sent) /\ ParseOk(received))
    THEN [sessions |-> ss, resp |-> ServerError]
    ELSE IF SessionGet(ss, sid) = "ValueError"
    THEN [sessions |-> ss, resp |-> ServerError]
    ELSE IF SessionGet(ss, sid) = "DoesNotExist"
    THEN [sessions |-> ss, resp |-> InvalidSession]
    ELSE [sessions |-> [ss EXCEPT ![sid.n] =
                           Ended(@, ParseInt(sent), ParseInt(received), t)],
          resp |-> EndedResponse]

\* POST /end-session/
EndSessionCall(sid, sent, received, t) ==
    /\ LET r == end_session(sessions, sid, sent, received, t) IN
         sessions' = r.sessions /\ resp' = r.resp
    /\ req' = "POST /end-session/"
    /\ now' = t
    /\ UNCHANGED <<users, configs, workers>>

----------------------------------------------------------------------------
(* views.py: the two definitions of stats *)

BytesPerMB == 1024 * 1024

\* Mutant: the hundredths are cut off, not rounded.
Round2_truncated(num, den) == (100 * num) \div den

\* round(x, 2) of x = num / den, in hundredths: Python rounds the exact value of
\* the float to the nearest hundredth, a tie to the even one.
Round2(num, den) ==
    LET q == (100 * num) \div den
        r == (100 * num) % den
    IN  IF 2 * r < den THEN q
        ELSE IF 2 * r > den THEN q + 1
        ELSE IF q % 2 = 0 THEN q ELSE q + 1

Connected(ss) == Cardinality({i \in DOMAIN ss : ss[i].active})

\* First definition (the @api_view(['GET']) one).
stats(ss) ==
    Response([connected_users |-> Connected(ss),
              total_data_MB |-> Round2(SumOver(ss, "bytes_sent")
                                       + SumOver(ss, "bytes_received"), BytesPerMB)],
             200)

\* Second definition: every name it hands to the ORM has to resolve to a field
\* of Session, or the query raises FieldError.
StatsRedefinedLookups == {"user_id", "data_used_mb", "end_time", "device_os", "app_version"}

stats_redefined(ss) ==
    IF StatsRedefinedLookups \subseteq SessionFields
    THEN Response([total_users |-> Cardinality({ss[i].user : i \in DOMAIN ss}),
                   total_sessions |-> Len(ss),
                   active_sessions |-> Cardinality({i \in DOMAIN ss : ss[i].end_time = NULL}),
                   total_data_used_mb |-> 0,
                   top_os_versions |-> <<>>,
                   top_app_versions |-> <<>>], 200)
    ELSE ServerError

\* The GetStats operation applied to the store.
GetStats ==
    /\ resp' = stats(sessions)
    /\ req' = "GetStats"
    /\ UNCHANGED <<users, sessions, configs, now, workers>>

----------------------------------------------------------------------------
(* urls.py and the module namespace of views.py *)

\* The top-level function definitions of views.py, in source order.
ViewDefs == <<"start_session", "end_session", "stats", "stats", "server_config">>

\* views.<name>: a later def rebinds the name, so the last definition is the one
\* the attribute gives.
ViewsAttr(name) ==
    CHOOSE i \in DOMAIN ViewDefs :
        /\ ViewDefs[i] = name
        /\ \A j \in DOMAIN ViewDefs : ViewDefs[j] = name => j <= i

urlpatterns ==
    [p \in {"start-session/", "end-session/", "stats/", "server-config/"} |->
        CASE p = "start-session/" -> ViewsAttr("start_session")
          [] p = "end-session/" -> ViewsAttr("end_session")
          [] p = "stats/" -> ViewsAttr("stats")
          [] p = "server-config/" -> ViewsAttr("server_config")]

\* GET /stats/
get_stats ==
    /\ resp' = IF urlpatterns["stats/"] = 3 THEN stats(sessions)
               ELSE stats_redefined(sessions)
    /\ req' = "GET /stats/"
    /\ UNCHANGED <<users, sessions, configs, now, workers>>

----------------------------------------------------------------------------
(* views.py: server_config, and the out-of-band writers of ServerConfig *)

NoConfig == Response([error |-> "No config found"], 404)

ConfigResponse(config) ==
    Response([server_ip |-> config.server_ip, port |-> config.port,
              protocol |-> config.protocol, dns |-> config.dns,
              message |-> config.message], 200)

\* ServerConfig.objects.last(): the model declares no ordering, so the queryset
\* is ordered by primary key and last() is the row with the greatest one; 0 for None.
Last(rows) == Len(rows)

server_config(rows) ==
    IF Last(rows) # 0 THEN ConfigResponse(rows[Last(rows)]) ELSE NoConfig

\* GET /server-config/
GetServerConfig ==
    /\ resp' = server_config(configs)
    /\ req' = "GET /server-config/"
    /\ UNCHANGED <<users, sessions, configs, now, workers>>

\* A row saved for the first time (admin, shell): auto_now stamps last_updated.
config_create(server_ip, t) ==
    /\ Len(configs) < MaxConfigs
    /\ configs' = Append(configs, ServerConfig(server_ip, t))
    /\ now' = t
    /\ UNCHANGED <<users, sessions, req, resp, workers>>

\* An existing row saved again: auto_now stamps last_updated on every save.
config_save(i, server_ip, t) ==
    /\ i \in DOMAIN configs
    /\ configs' = [configs EXCEPT ![i] = ServerConfig(server_ip, t)]
    /\ now' = t
    /\ UNCHANGED <<users, sessions, req, resp, workers>>

----------------------------------------------------------------------------
(* The sequential service: one request at a time, each view run to its end *)

Workers == {"w1", "w2"}

NoRequest == [op |-> "none"]
NoResponse == Response([status |-> "none"], 0)

Init ==
    /\ users = <<>>
    /\ sessions = <<>>
    /\ configs = <<>>
    /\ now = 0
    /\ req = "none"
    /\ resp = NoResponse
    /\ pc = [p \in Workers |-> "idle"]
    /\ preq = [p \in Workers |-> NoRequest]
    /\ puser = [p \in Workers |-> 0]
    /\ presp = [p \in Workers |-> NoResponse]
    /\ plog = [p \in Workers |-> <<>>]

Times == {t \in {now, now + 1} : t <= MaxTime}

StartSession ==
    \E uid \in UserIdInputs, d \in DeviceInputs : StartSessionCall(uid, d[1], d[2])

EndSession ==
    \E sid \in SessionIdInputs, b \in ByteInputs, t \in Times :
        EndSessionCall(sid, b[1], b[2], t)

Next == StartSession \/ EndSession \/ GetStats \/ get_stats

Spec == Init /\ [][Next]_vars

----------------------------------------------------------------------------
(* The config service with its out-of-band writers *)

ConfigCreate == \E ip \in ServerIps, t \in Times : config_create(ip, t)

ConfigSave == \E i \in DOMAIN configs, ip \in ServerIps, t \in Times : config_save(i, ip, t)

NextConfig == ConfigCreate \/ ConfigSave \/ GetServerConfig

SpecConfig == Init /\ [][NextConfig]_vars

----------------------------------------------------------------------------
(* Concurrent requests: each worker runs one view at a time, and the store    *)
(* calls of different workers interleave.  A step is one store call (one       *)
(* query or one single-row write), which the store runs atomically; there is   *)
(* no transaction around a view.                                               *)

Blank(p) ==
    /\ preq' = [preq EXCEPT ![p] = NoRequest]
    /\ puser' = [puser EXCEPT ![p] = 0]
    /\ presp' = [presp EXCEPT ![p] = NoResponse]
    /\ plog' = [plog EXCEPT ![p] = <<>>]

Goto(p, label) == pc' = [pc EXCEPT ![p] = label]
Log(p, call) == plog' = [plog EXCEPT ![p] = Append(@, call)]
Return(p, response) == presp' = [presp EXCEPT ![p] = response] /\ Goto(p, "done")

Starting == {p \in Workers : pc[p] \in {"get", "create", "get_again", "create_session"}}

\* start_session: the request is read into the view's locals
w_start_session(p, uid, os, app_version) ==
    /\ pc[p] = "idle"
    /\ Len(sessions) + Cardinality(Starting) < MaxSessions
    /\ preq' = [preq EXCEPT ![p] = [op |-> "start_session", user_id |-> uid,
                                     device_os |-> os, app_version |-> app_version]]
    /\ Goto(p, "get")
    /\ UNCHANGED <<users, sessions, configs, now, req, resp, puser, presp, plog>>

\* get_or_create: self.get(user_id=...)
w_get(p) ==
    /\ pc[p] = "get"
    /\ Log(p, "get")
    /\ IF UserGet(users, preq[p].user_id) # 0
       THEN puser' = [puser EXCEPT ![p] = UserGet(users, preq[p].user_id)]
            /\ Goto(p, "create_session")
       ELSE puser' = puser /\ Goto(p, "create")
    /\ UNCHANGED <<users, sessions, configs, now, req, resp, preq, presp>>

\* get_or_create: self.create(**params) after DoesNotExist
w_create(p) ==
    /\ pc[p] = "create"
    /\ IF UserInsertOk(users, preq[p].user_id, preq[p].device_os, preq[p].app_version)
       THEN /\ users' = Append(users, AppUser(preq[p].user_id.s, preq[p].device_os.s,
                                              preq[p].app_version.s))
            /\ puser' = [puser EXCEPT ![p] = Len(users) + 1]
            /\ Log(p, "insert")
            /\ Goto(p, "create_session")
       ELSE /\ users' = users /\ puser' = puser
            /\ Log(p, "IntegrityError")
            /\ Goto(p, "get_again")
    /\ UNCHANGED <<sessions, configs, now, req, resp, preq, presp>>

\* Mutant: the IntegrityError is not handled and fails the request.
w_get_again_raises(p) ==
    /\ pc[p] = "get_again"
    /\ Log(p, "get")
    /\ puser' = puser /\ Return(p, ServerError)
    /\ UNCHANGED <<users, sessions, configs, now, req, resp, preq>>

\* get_or_create: self.get(user_id=...) after IntegrityError; a second miss
\* re-raises the IntegrityError
w_get_again(p) ==
    /\ pc[p] = "get_again"
    /\ Log(p, "get")
    /\ IF UserGet(users, preq[p].user_id) # 0
       THEN /\ puser' = [puser EXCEPT ![p] = UserGet(users, preq[p].user_id)]
            /\ Goto(p, "create_session")
            /\ presp' = presp
       ELSE puser' = puser /\ Return(p, ServerError)
    /\ UNCHANGED <<users, sessions, configs, now, req, resp, preq>>

\* Session.objects.create(user=user) and the response
w_create_session(p) ==
    /\ pc[p] = "create_session"
    /\ sessions' = Append(sessions, Session(puser[p]))
    /\ Log(p, "insert")
    /\ Return(p, Started(Len(sessions) + 1))
    /\ UNCHANGED <<users, configs, now, req, resp, preq, puser>>

\* end_session: the request is read and the byte counts parsed
w_end_session(p, sid, sent, received) ==
    /\ pc[p] = "idle"
    /\ preq' = [preq EXCEPT ![p] = [op |-> "end_session", session_id |-> sid,
                                     sent |-> ParseInt(sent),
                                     received |-> ParseInt(received)]]
    /\ IF ParseOk(sent) /\ ParseOk(received)
       THEN Goto(p, "get_session") /\ presp' = presp
       ELSE Return(p, ServerError)
    /\ UNCHANGED <<users, sessions, configs, now, req, resp, puser, plog>>

\* Session.objects.get(id=session_id)
w_get_session(p) ==
    /\ pc[p] = "get_session"
    /\ Log(p, "get")
    /\ IF SessionGet(sessions, preq[p].session_id) = "ValueError"
       THEN Return(p, ServerError)
       ELSE IF SessionGet(sessions, preq[p].session_id) = "DoesNotExist"
       THEN Return(p, InvalidSession)
       ELSE Goto(p, "save") /\ presp' = presp
    /\ UNCHANGED <<users, sessions, configs, now, req, resp, preq, puser>>

\* Mutant: the update is not filtered by id and ends every Session.
w_save_every(p, t) ==
    /\ pc[p] = "save"
    /\ sessions' = [i \in DOMAIN sessions |->
                       Ended(sessions[i], preq[p].sent, preq[p].received, t)]
    /\ now' = t
    /\ Log(p, "update")
    /\ Return(p, EndedResponse)
    /\ UNCHANGED <<users, configs, req, resp, preq, puser>>

\* The four assignments and session.save(): every column of the row is written
\* from the instance; the columns the view did not assign never change.
w_save(p, t) ==
    /\ pc[p] = "save"
    /\ sessions' = [sessions EXCEPT ![preq[p].session_id.n] =
                       Ended(@, preq[p].sent, preq[p].received, t)]
    /\ now' = t
    /\ Log(p, "update")
    /\ Return(p, EndedResponse)
    /\ UNCHANGED <<users, configs, req, resp, preq, puser>>

\* GET /stats/
w_get_stats(p) ==
    /\ pc[p] = "idle"
    /\ preq' = [preq EXCEPT ![p] = [op |-> "get_stats"]]
    /\ Return(p, IF urlpatterns["stats/"] = 3 THEN stats(sessions)
                 ELSE stats_redefined(sessions))
    /\ UNCHANGED <<users, sessions, configs, now, req, resp, puser, plog>>

\* GET /server-config/
w_server_config(p) ==
    /\ pc[p] = "idle"
    /\ preq' = [preq EXCEPT ![p] = [op |-> "server_config"]]
    /\ Log(p, "get")
    /\ Return(p, server_config(configs))
    /\ UNCHANGED <<users, sessions, configs, now, req, resp, puser>>

\* The response is sent and the worker is free again.
w_return(p) ==
    /\ pc[p] = "done"
    /\ Goto(p, "idle")
    /\ Blank(p)
    /\ UNCHANGED <<users, sessions, configs, now, req, resp>>

\* The requests of a burst: fewer distinct payloads than the sequential service
\* is given, and all of them served within one tick of the clock.
BurstDeviceInputs ==
    {<<StrValue("android"), StrValue("1.0")>>, <<NoValue, StrValue("1.0")>>}

BurstByteInputs ==
    {<<NoValue, NoValue>>, <<IntValue(1048576), IntValue(1048576)>>,
     <<StrValue("abc"), NoValue>>}

WStartSession ==
    \E p \in Workers, uid \in UserIdInputs, d \in BurstDeviceInputs :
        w_start_session(p, uid, d[1], d[2])

WEndSession ==
    \E p \in Workers, sid \in SessionIdInputs, b \in BurstByteInputs :
        w_end_session(p, sid, b[1], b[2])

NextConc ==
    \/ WStartSession
    \/ WEndSession
    \/ \E p \in Workers :
         \/ w_get(p) \/ w_create(p) \/ w_get_again(p) \/ w_create_session(p)
         \/ w_get_session(p)
         \/ w_save(p, now)
         \/ w_get_stats(p) \/ w_server_config(p)
         \/ w_return(p)

SpecConc == Init /\ [][NextConc]_vars

----------------------------------------------------------------------------
(* Properties of the sequential service *)

IsPrefix(old, new) == Len(old) <= Len(new) /\ SubSeq(new, 1, Len(old)) = old

Stored(uid) == \E i \in DOMAIN users : users[i].user_id = uid.s

C2_ReusedStart ==
    \A uid \in UserIdInputs, d \in DeviceInputs :
        (Given(uid) /\ Stored(uid))
        => LET r == start_session(users, sessions, uid, d[1], d[2]) IN
           /\ r.users = users
           /\ Len(r.sessions) = Len(sessions) + 1 /\ IsPrefix(sessions, r.sessions)
           /\ users[r.sessions[Len(r.sessions)].user].user_id = uid.s
           /\ r.resp = Started(Len(r.sessions))

\* One User owns two Sessions, the second just started.
C2_Witness ==
    /\ Len(users) = 1 /\ Len(sessions) = 2
    /\ sessions[1].user = 1 /\ sessions[2].user = 1
    /\ req = "POST /start-session/" /\ resp = Started(2)

\* C3 (as claimed): EndSession with a session_id that identifies no stored
\* Session answers 404 "Invalid session ID" and changes no User and no Session.
\* (Stated for requests whose byte counts parse, so that only the session_id
\* decides the outcome.)
C3_UnknownSessionIs404 ==
    [][\A sid \in SessionIdInputs, b \in ByteInputs, t \in Times :
          ( /\ req' = "POST /end-session/"
            /\ ParseOk(b[1]) /\ ParseOk(b[2])
            /\ ~(sid.t = "int" /\ sid.n \in DOMAIN sessions)
            /\ EndSessionCall(sid, b[1], b[2], t) )
          => resp' = InvalidSession /\ users' = users /\ sessions' = sessions
      ]_vars

\* C4: in every state reached by StartSession and EndSession calls a Session is
\* active exactly when its end timestamp is null.
C4_ActiveIffNotEnded ==
    \A i \in DOMAIN sessions : sessions[i].active <=> (sessions[i].end_time = NULL)

\* An ended Session beside a running one, an EndSession just served.
C4_Witness ==
    /\ Len(sessions) = 2
    /\ sessions[1].end_time # NULL /\ ~sessions[1].active
    /\ sessions[2].end_time = NULL /\ sessions[2].active
    /\ req = "POST /end-session/" /\ resp = EndedResponse

IsEnded(session) == session.end_time # NULL

\* C5 (as claimed): once a Session has been ended, no later operation changes
\* its end timestamp or its byte counters.
C5_EndedNeverChanges ==
    [][\A i \in DOMAIN sessions :
          IsEnded(sessions[i])
          => /\ sessions'[i].end_time = sessions[i].end_time
             /\ sessions'[i].bytes_sent = sessions[i].bytes_sent
             /\ sessions'[i].bytes_received = sessions[i].bytes_received
      ]_vars

\* C5 (amended): an ended Session stays ended, and no StartSession call and no
\* EndSession call on another id changes it; but an EndSession call on its own
\* id is not rejected: it answers "ended", stores the byte counts of that call
\* in place of the earlier ones and sets the end timestamp to the time of that
\* call, which is never earlier than the timestamp it replaces.
C5_ReEndOverwrites ==
    \A i \in DOMAIN sessions :
        IsEnded(sessions[i])
        => /\ sessions[i].end_time <= now
           /\ \A uid \in UserIdInputs, d \in DeviceInputs :
                start_session(users, sessions, uid, d[1], d[2]).sessions[i] = sessions[i]
           /\ \A sid \in SessionIdInputs, b \in ByteInputs, t \in Times :
                LET r == end_session(sessions, sid, b[1], b[2], t) IN
                IF sid = IntValue(i) /\ ParseOk(b[1]) /\ ParseOk(b[2])
                THEN /\ r.resp = EndedResponse
                     /\ r.sessions[i] =
                          [user |-> sessions[i].user, end_time |-> t,
                           bytes_sent |-> ParseInt(b[1]),
                           bytes_received |-> ParseInt(b[2]), active |-> FALSE]
                ELSE r.sessions[i] = sessions[i]

\* An EndSession has just answered "ended" for a Session that now carries the
\* byte counts of that call and the time of that call as end timestamp.
C5_Witness ==
    /\ Len(sessions) = 1
    /\ sessions[1].end_time = 1 /\ now = 1
    /\ sessions[1].bytes_sent = 131072
    /\ req = "POST /end-session/" /\ resp = EndedResponse

IsStatsResponse(r) == r.status = 200 /\ DOMAIN r.body = {"connected_users", "total_data_MB"}

TotalBytes == SumOver(sessions, "bytes_sent") + SumOver(sessions, "bytes_received")

Abs(x) == IF x < 0 THEN -x ELSE x

\* C6: after any sequence of StartSession and EndSession calls GetStats answers
\* connected_users = the number of Sessions with active = true and
\* total_data_MB = (sum of bytes_sent + sum of bytes_received) / (1024*1024)
\* rounded to two decimal places (the nearest hundredth, a tie going to the even
\* hundredth); 0 and 0.0 with no Session, 2.0 for one Session ended with
\* 1048576 bytes each way.
C6_GetStats ==
    req = "GetStats"
    => /\ IsStatsResponse(resp)
       /\ resp.body.connected_users =
            Cardinality({i \in DOMAIN sessions : sessions[i].active = TRUE})
       /\ 2 * Abs(100 * TotalBytes - resp.body.total_data_MB * 1048576) <= 1048576
       /\ 2 * Abs(100 * TotalBytes - resp.body.total_data_MB * 1048576) = 1048576
            => resp.body.total_data_MB % 2 = 0
       /\ sessions = <<>>
            => resp.body.connected_users = 0 /\ resp.body.total_data_MB = 0
       /\ ( /\ Len(sessions) = 1
            /\ sessions[1].bytes_sent = 1048576
            /\ sessions[1].bytes_received = 1048576 )
            => resp.body.total_data_MB = 200

\* GetStats answered with one Session running and one ended with 393216 bytes,
\* which is 0.375 MB and rounds to 0.38.
C6_Witness ==
    /\ req = "GetStats"
    /\ TotalBytes = 393216
    /\ resp.body.total_data_MB = 38
    /\ resp.body.connected_users = 1

\* C7 (as claimed): GET /stats/ succeeds in every store state and its response
\* has exactly the fields connected_users and total_data_MB.
C7_StatsRoute == [][get_stats => IsStatsResponse(resp')]_vars

----------------------------------------------------------------------------
(* Properties of the config service *)

IsLatest(i) == \A j \in DOMAIN configs : configs[j].last_updated <= configs[i].last_updated

\* C8 (as claimed): GetServerConfig answers 404 "No config found" exactly when no
\* row exists, and otherwise the fields of a row with the latest last-updated
\* timestamp, also when that row is not the one created last.
C8_LatestUpdatedServed ==
    [][GetServerConfig
       => IF configs = <<>> THEN resp' = NoConfig
          ELSE \E i \in DOMAIN configs : IsLatest(i) /\ resp' = ConfigResponse(configs[i])
      ]_vars

----------------------------------------------------------------------------
(* Properties of concurrent requests *)

Calls(log, kinds) == Cardinality({k \in DOMAIN log : log[k] \in kinds})

IsStart(p) == preq[p].op = "start_session"

AllGiven(p) ==
    Given(preq[p].user_id) /\ Given(preq[p].device_os) /\ Given(preq[p].app_version)

\* C9: with StartSession calls running concurrently, also two for the same new
\* external_user_id, no interleaving of their lookup and create steps leaves
\* two Users with one identifier; a call whose INSERT the uniqueness constraint
\* rejects finds the stored User when it looks again and goes on; every call
\* that carries its three values answers 200 with the id of a Session owned by
\* the one User of its identifier, and two calls never get the same session_id.
C9_ConcurrentStart ==
    /\ \A i, j \in DOMAIN users : users[i].user_id = users[j].user_id => i = j
    /\ \A p \in Workers :
         (IsStart(p) /\ AllGiven(p))
         => /\ pc[p] = "get_again" => UserGet(users, preq[p].user_id) # 0
            /\ pc[p] = "done"
                 => /\ presp[p].status = 200
                    /\ presp[p].body.session_id \in DOMAIN sessions
                    /\ sessions[presp[p].body.session_id].user = puser[p]
                    /\ users[puser[p]].user_id = preq[p].user_id.s
    /\ \A p, q \in Workers :
         ( /\ p # q /\ pc[p] = "done" /\ pc[q] = "done" /\ IsStart(p) /\ IsStart(q)
           /\ presp[p].status = 200 /\ presp[q].status = 200 )
         => presp[p].body.session_id # presp[q].body.session_id

\* Two calls for the same new identifier have both returned; one of them
\* created the User, the other was rejected by the constraint and fetched it.
C9_Witness ==
    /\ pc["w1"] = "done" /\ pc["w2"] = "done"
    /\ IsStart("w1") /\ IsStart("w2")
    /\ preq["w1"].user_id = StrValue("u1") /\ preq["w2"].user_id = StrValue("u1")
    /\ plog["w1"] = <<"get", "insert", "insert">>
    /\ plog["w2"] = <<"get", "IntegrityError", "get", "insert">>
    /\ Len(users) = 1 /\ Len(sessions) = 2
    /\ presp["w1"].status = 200 /\ presp["w2"].status = 200

\* C10 (as claimed): no operation makes more than one create or update, and no
\* reachable state shows a part of an operation, such as a User that
\* StartSession created while its Session does not exist.
C10_SingleWriteNoPartialEffect ==
    /\ \A p \in Workers : Calls(plog[p], {"insert", "update"}) <= 1
    /\ \A i \in DOMAIN users : \E j \in DOMAIN sessions : sessions[j].user = i

RowsWritten ==
    (Len(users') - Len(users)) + (Len(sessions') - Len(sessions))
    + Cardinality({i \in DOMAIN users : users'[i] # users[i]})
    + Cardinality({i \in DOMAIN sessions : sessions'[i] # sessions[i]})

\* C10 (amended): every store call of an operation is one atomic single-row
\* write at most, and rows are only appended or updated; EndSession makes at
\* most one update, GetStats and GetServerConfig write nothing, and StartSession
\* makes up to two creates, the User and then the Session, as two separate
\* writes with no transaction around them, so the state between them (the User
\* stored, its Session not yet) is visible to concurrent requests.
C10_PerRowWrites ==
    [][/\ RowsWritten <= 1
       /\ Len(users') >= Len(users) /\ Len(sessions') >= Len(sessions)
       /\ configs' = configs
       /\ \A p \in Workers :
            /\ Calls(plog'[p], {"insert"}) <= (IF preq'[p].op = "start_session" THEN 2 ELSE 0)
            /\ Calls(plog'[p], {"update"}) <= (IF preq'[p].op = "end_session" THEN 1 ELSE 0)
            /\ Len(plog'[p]) > Len(plog[p])
                 => RowsWritten <= Calls(plog'[p], {"insert", "update"})
                                   - Calls(plog[p], {"insert", "update"})
       /\ (\A p \in Workers : Len(plog'[p]) <= Len(plog[p])) => RowsWritten = 0
      ]_vars

\* Between the two creates of a StartSession: the User is stored, no Session of
\* it is, and the other worker is being answered by a read.
C10_Witness ==
    /\ pc["w1"] = "create_session"
    /\ plog["w1"] = <<"get", "insert">>
    /\ Len(users) = 1 /\ sessions = <<>>
    /\ pc["w2"] = "done" /\ preq["w2"].op = "server_config"

====
